---- MODULE Spec2Model ----
(***************************************************************************)
(* Model of the RSVP and poll handlers of src/src/App.tsx                  *)
(* (handleScheduleVote, handleVote, getMyPollSelectedIds, addOptionToPoll) *)
(* and of the document store they read snapshots from and write named      *)
(* fields to (Firestore onSnapshot / updateDoc).                           *)
(***************************************************************************)
EXTENDS Integers, Sequences, FiniteSets, TLC

\* ---------------------------------------------------------------- bounds

\* Number of handler calls recorded in one behaviour.
MaxOps == 3

\* Number of poll handler calls recorded in one behaviour.
MaxPollOps == 4

\* Number of handler calls recorded in one behaviour of clients whose
\* snapshots may be stale.
MaxStaleOps == 3

\* Calls made by clients that may not have picked a display name yet.
MaxPickerOps == 2

\* The last day the clock reaches, and the handler calls recorded in one
\* behaviour of a poll with an end date.
MaxDay == 1
MaxExpiryOps == 2

\* Handler calls recorded in one behaviour of a poll that may refuse new
\* options.
MaxAddOps == 2

\* Clicks a voter is given to withdraw its votes.
MaxClicks == 3

\* Connection identities (user.uid), display names (MEMBER_NAMES), RSVP
\* responses (ScheduleResponse) and option ids the model draws from.
Uids == {"u1", "u2", "u3"}
Names == {"A", "B"}
Responses == {"attend", "notAttend", "undecided"}

\* The value of a missing object key or of an unset userDisplayName.
Undefined == "undefined"

\* ------------------------------------------------------- JavaScript helpers

Range(s) == {s[i] : i \in 1..Len(s)}

Max(a, b) == IF a >= b THEN a ELSE b

\* obj[key] on a JavaScript object: undefined when the key is absent.
Get(obj, key) == IF key \in DOMAIN obj THEN obj[key] ELSE Undefined

\* { ...obj, [key]: value }
Put(obj, key, value) ==
  [k \in DOMAIN obj \cup {key} |-> IF k = key THEN value ELSE obj[k]]

\* delete obj[key]
Delete(obj, key) == [k \in DOMAIN obj \ {key} |-> obj[k]]

\* The empty object {}.
EmptyObj == [k \in {} |-> Undefined]

\* arr.filter(x => x !== v)
Without(arr, v) == SelectSeq(arr, LAMBDA x : x # v)

\* How many entries of arr equal v.
RECURSIVE Count(_, _)
Count(arr, v) ==
  IF arr = <<>> THEN 0
  ELSE (IF Head(arr) = v THEN 1 ELSE 0) + Count(Tail(arr), v)

\* updateDoc(ref, fields): the named fields are overwritten, the others kept.
UpdateDoc(document, fields) ==
  [k \in DOMAIN document |->
     IF k \in DOMAIN fields THEN fields[k] ELSE document[k]]

\* ------------------------------------------------------------ RSVP engine

\* addSchedule: a new schedule has three empty lists and no display names.
NewSchedule ==
  [attendees |-> <<>>, notAttendees |-> <<>>, undecided |-> <<>>,
   attendeeDisplayNames |-> EmptyObj]

\* removeByName filtering nothing out.
removeByNameKeepsAll(arr, displayNames, userDisplayName) == arr

\* removeByName: arr.filter(uid => displayNames[uid] !== userDisplayName)
removeByName(arr, displayNames, userDisplayName) ==
  SelectSeq(arr, LAMBDA uid : Get(displayNames, uid) # userDisplayName)

\* arr.some(uid => displayNames[uid] === userDisplayName)
someByName(arr, displayNames, userDisplayName) ==
  \E i \in 1..Len(arr) : Get(displayNames, arr[i]) = userDisplayName

\* wasAlreadySelected without its third clause: a re-click of 'undecided' is
\* not recognised.
wasAlreadySelectedTwoButtons(sched, userDisplayName, response) ==
  \/ response = "attend"
     /\ someByName(sched.attendees, sched.attendeeDisplayNames, userDisplayName)
  \/ response = "notAttend"
     /\ someByName(sched.notAttendees, sched.attendeeDisplayNames, userDisplayName)

\* wasAlreadySelected: the acting display name already holds the response.
wasAlreadySelected(sched, userDisplayName, response) ==
  \/ response = "attend"
     /\ someByName(sched.attendees, sched.attendeeDisplayNames, userDisplayName)
  \/ response = "notAttend"
     /\ someByName(sched.notAttendees, sched.attendeeDisplayNames, userDisplayName)
  \/ response = "undecided"
     /\ someByName(sched.undecided, sched.attendeeDisplayNames, userDisplayName)

\* The list for `own` after the vote: the acting name's entries removed and,
\* unless the click was a re-click, the acting uid appended to the chosen list.
newList(sched, arr, own, uid, userDisplayName, response) ==
  LET cleaned == removeByName(arr, sched.attendeeDisplayNames, userDisplayName)
  IN IF ~wasAlreadySelected(sched, userDisplayName, response) /\ response = own
       THEN Append(cleaned, uid)
       ELSE cleaned

\* newDisplayNames keeping the acting uid's entry only: the names of the other
\* voters are not carried over from the snapshot.
newDisplayNamesOwnOnly(sched, lists, uid, userDisplayName) ==
  LET allUids == Range(lists[1]) \cup Range(lists[2]) \cup Range(lists[3])
  IN [u \in allUids \cap {uid} |-> userDisplayName]

\* newDisplayNames as { ...displayNames, [user.uid]: userDisplayName }: the
\* old object is extended instead of rebuilt over the new lists.
newDisplayNamesExtended(sched, lists, uid, userDisplayName) ==
  Put(sched.attendeeDisplayNames, uid, userDisplayName)

\* newDisplayNames: rebuilt over the uids of the three new lists.
newDisplayNames(sched, lists, uid, userDisplayName) ==
  LET displayNames == sched.attendeeDisplayNames
      allUids == Range(lists[1]) \cup Range(lists[2]) \cup Range(lists[3])
      keys == {u \in allUids : u = uid \/ Get(displayNames, u) # Undefined}
  IN [u \in keys |-> IF u = uid THEN userDisplayName ELSE displayNames[u]]

\* The fields handleScheduleVote hands to updateDoc, computed from the
\* schedule of the caller's snapshot.
handleScheduleVote(sched, uid, userDisplayName, response) ==
  LET newAttendees ==
        newList(sched, sched.attendees, "attend", uid, userDisplayName, response)
      newNotAttendees ==
        newList(sched, sched.notAttendees, "notAttend", uid, userDisplayName, response)
      newUndecided ==
        newList(sched, sched.undecided, "undecided", uid, userDisplayName, response)
  IN [attendees |-> newAttendees,
      notAttendees |-> newNotAttendees,
      undecided |-> newUndecided,
      attendeeDisplayNames |->
        newDisplayNames(sched, <<newAttendees, newNotAttendees, newUndecided>>,
                        uid, userDisplayName)]

\* ------------------------------------------------------------ poll engine

\* Option ids of a new poll (`opt-${Date.now()}-${idx}`) and of options added
\* later (`opt-${Date.now()}`).
InitialOptionIds == <<"o1", "o2">>
AddedOptionIds == <<"o3", "o4", "o5", "o6", "o7">>

\* addPoll: the options with 0 votes, no voters, the chosen flags.
NewPoll(allowMultiple, allowAddOptions) ==
  [options |-> [i \in 1..Len(InitialOptionIds) |->
                  [id |-> InitialOptionIds[i], text |-> <<"x">>, votes |-> 0]],
   totalVotes |-> 0,
   votedUsers |-> <<>>,
   votedUserOptions |-> EmptyObj,
   voterDisplayNames |-> EmptyObj,
   allowMultiple |-> allowMultiple,
   allowAddOptions |-> allowAddOptions]

\* options.reduce((s, o) => s + o.votes, 0)
RECURSIVE sumVotes(_)
sumVotes(options) ==
  IF options = <<>> THEN 0
  ELSE Head(options).votes + sumVotes(Tail(options))

\* options.find(o => o.id === oid): the index of the first option with the
\* id, 0 when there is none.
findIndex(options, oid) ==
  IF \E i \in 1..Len(options) : options[i].id = oid
    THEN CHOOSE i \in 1..Len(options) :
           /\ options[i].id = oid
           /\ \A j \in 1..(i - 1) : options[j].id # oid
    ELSE 0

\* The decrement without Math.max: opt.votes = opt.votes - 1
decrementFoundUnclamped(options, oid) ==
  LET i == findIndex(options, oid)
  IN IF i = 0 THEN options
     ELSE [options EXCEPT ![i].votes = @ - 1]

\* const opt = options.find(...); if (opt) opt.votes = Math.max(0, opt.votes - 1)
decrementFound(options, oid) ==
  LET i == findIndex(options, oid)
  IN IF i = 0 THEN options
     ELSE [options EXCEPT ![i].votes = Max(0, @ - 1)]

\* for (const oid of optIds) { ... decrement ... }
RECURSIVE decrementEach(_, _)
decrementEach(options, optIds) ==
  IF optIds = <<>> THEN options
  ELSE decrementEach(decrementFound(options, Head(optIds)), Tail(optIds))

\* The roll-back left out: the counts of the removed voters stay.
rollBackNothing(options, uids, votedUserOpts) == options

\* for (const uid of uidsToRemove) { const optIds = votedUserOpts[uid] || []; ... }
RECURSIVE rollBack(_, _, _)
rollBack(options, uids, votedUserOpts) ==
  IF uids = {} THEN options
  ELSE LET uid == CHOOSE u \in uids : TRUE
           optIds == IF uid \in DOMAIN votedUserOpts
                       THEN votedUserOpts[uid] ELSE <<>>
       IN rollBack(decrementEach(options, optIds), uids \ {uid}, votedUserOpts)

\* uidsToRemove finding nobody: votes of the same display name from another
\* session are not looked up.
uidsToRemoveNobody(poll, userDisplayName) ==
  {uid \in DOMAIN poll.voterDisplayNames :
     poll.voterDisplayNames[uid] = userDisplayName /\ FALSE}

\* uidsToRemove: the uids recorded under the acting display name.
uidsToRemove(poll, userDisplayName) ==
  {uid \in DOMAIN poll.voterDisplayNames :
     poll.voterDisplayNames[uid] = userDisplayName}

\* getMyPollSelectedIds: the selection of the first uid recorded under the
\* display name. Object.entries lists the keys in the object's own order; the
\* model takes one fixed entry of those recorded under the name.
getMyPollSelectedIds(poll, userDisplayName) ==
  LET names == poll.voterDisplayNames
      opts == poll.votedUserOptions
      mine == {uid \in DOMAIN names : names[uid] = userDisplayName}
  IN IF userDisplayName = Undefined \/ mine = {} THEN <<>>
     ELSE LET uid == CHOOSE u \in mine : TRUE
          IN IF uid \in DOMAIN opts THEN opts[uid] ELSE <<>>

\* cleanVotedUsers: votedUsers without the uids recorded under the name.
cleanVotedUsers(poll, userDisplayName) ==
  SelectSeq(poll.votedUsers,
            LAMBDA uid : uid \notin uidsToRemove(poll, userDisplayName))

\* cleanVotedUserOpts / cleanVoterNames copied whole: the entries of the
\* removed voters are carried over.
cleanEntriesCarried(obj, users) == obj

\* cleanVotedUserOpts / cleanVoterNames: the entries of the remaining voters.
cleanEntries(obj, users) ==
  [uid \in {u \in Range(users) : u \in DOMAIN obj} |-> obj[uid]]

\* options.map(opt => opt.id === optionId ? {...opt, votes: f(opt.votes)} : opt)
mapVotes(options, optionId, f(_)) ==
  [i \in 1..Len(options) |->
     IF options[i].id = optionId
       THEN [options[i] EXCEPT !.votes = f(@)]
       ELSE options[i]]

\* effectiveSelectedIds always empty: the acting uid's recorded selection is
\* never read.
effectiveSelectedIdsNone(poll, uid, userDisplayName) == <<>>

\* effectiveSelectedIds: what the acting uid still has selected after the purge.
effectiveSelectedIds(poll, uid, userDisplayName) ==
  LET clean == cleanEntries(poll.votedUserOptions,
                            cleanVotedUsers(poll, userDisplayName))
  IN IF uid \in uidsToRemove(poll, userDisplayName) THEN <<>>
     ELSE IF uid \in DOMAIN clean THEN clean[uid] ELSE <<>>

\* handleVote, allowMultiple: the fields handed to updateDoc.
voteMulti(poll, uid, userDisplayName, optionId) ==
  LET users == cleanVotedUsers(poll, userDisplayName)
      cleanVotedUserOpts == cleanEntries(poll.votedUserOptions, users)
      cleanVoterNames == cleanEntries(poll.voterDisplayNames, users)
      options == rollBack(poll.options, uidsToRemove(poll, userDisplayName),
                          poll.votedUserOptions)
      effective == effectiveSelectedIds(poll, uid, userDisplayName)
      alreadyVoted == optionId \in Range(effective)
      newSelectedIds == IF alreadyVoted THEN Without(effective, optionId)
                        ELSE Append(effective, optionId)
      voteDelta == IF alreadyVoted THEN -1 ELSE 1
      updatedOptions == mapVotes(options, optionId,
                                 LAMBDA v : Max(0, v + voteDelta))
      newVotedUserOpts == Put(cleanVotedUserOpts, uid, newSelectedIds)
      newVotedUsers ==
        IF Len(newSelectedIds) > 0 /\ uid \notin Range(users)
          THEN Append(users, uid)
          ELSE IF Len(newSelectedIds) = 0 THEN Without(users, uid) ELSE users
      newTotal == sumVotes(options) + voteDelta
      named == IF Len(newSelectedIds) > 0
                 THEN Put(cleanVoterNames, uid, userDisplayName)
                 ELSE cleanVoterNames
      finalVoterNames ==
        [u \in {k \in DOMAIN named : k \in Range(newVotedUsers)} |-> named[u]]
  IN [options |-> updatedOptions,
      totalVotes |-> Max(0, newTotal),
      votedUserOptions |-> newVotedUserOpts,
      votedUsers |-> newVotedUsers,
      voterDisplayNames |-> finalVoterNames]

\* handleVote, single choice: the fields handed to updateDoc.
voteSingle(poll, uid, userDisplayName, optionId) ==
  LET users == cleanVotedUsers(poll, userDisplayName)
      cleanVotedUserOpts == cleanEntries(poll.votedUserOptions, users)
      cleanVoterNames == cleanEntries(poll.voterDisplayNames, users)
      options == rollBack(poll.options, uidsToRemove(poll, userDisplayName),
                          poll.votedUserOptions)
      mySelectedIds == getMyPollSelectedIds(poll, userDisplayName)
      prevOptionId == IF mySelectedIds = <<>> THEN Undefined
                      ELSE mySelectedIds[1]
      isSameOption == prevOptionId = optionId
      isChangingVote ==
        Len(effectiveSelectedIds(poll, uid, userDisplayName)) > 0
      transfer == isChangingVote /\ prevOptionId # Undefined
      updatedOptions ==
        IF transfer
          THEN [i \in 1..Len(options) |->
                  IF options[i].id = prevOptionId
                    THEN [options[i] EXCEPT !.votes = Max(0, @ - 1)]
                  ELSE IF options[i].id = optionId
                    THEN [options[i] EXCEPT !.votes = @ + 1]
                  ELSE options[i]]
          ELSE mapVotes(options, optionId, LAMBDA v : v + 1)
      newTotal == IF transfer THEN sumVotes(options) ELSE sumVotes(options) + 1
      newVotedUsers == IF uid \in Range(users) THEN users
                       ELSE Append(users, uid)
  IN IF isSameOption
       THEN [options |-> options,
             totalVotes |-> Max(0, sumVotes(options)),
             votedUserOptions |-> Delete(cleanVotedUserOpts, uid),
             votedUsers |-> Without(users, uid),
             voterDisplayNames |-> Delete(cleanVoterNames, uid)]
       ELSE [options |-> updatedOptions,
             totalVotes |-> newTotal,
             votedUserOptions |-> Put(cleanVotedUserOpts, uid, <<optionId>>),
             votedUsers |-> newVotedUsers,
             voterDisplayNames |-> Put(cleanVoterNames, uid, userDisplayName)]

\* handleVote without the isMulti test: every poll takes the multi-choice
\* branch.
handleVoteAsMulti(poll, uid, userDisplayName, optionId) ==
  voteMulti(poll, uid, userDisplayName, optionId)

\* handleVote: the fields written for a click on optionId, computed from the
\* poll of the caller's snapshot.
handleVote(poll, uid, userDisplayName, optionId) ==
  IF poll.allowMultiple
    THEN voteMulti(poll, uid, userDisplayName, optionId)
    ELSE voteSingle(poll, uid, userDisplayName, optionId)

\* ------------------------------------------------------------------ state

\* The browser sessions whose snapshots are modelled, named by their
\* connection identity.
Clients == {"u1", "u2"}

VARIABLES
  schedule,         \* the stored schedule document
  poll,             \* the stored poll document
  schedules,        \* schedules[c]: the schedule of client c's last snapshot
  polls,            \* polls[c]: the poll of client c's last snapshot
  userDisplayName,  \* userDisplayName[c]: client c's display name, if set
  hist,             \* the handler calls made so far, oldest first
  clock,            \* the current date, as a day number
  today             \* today[c]: the date computed by client c's last render

vars == <<schedule, poll, schedules, polls, userDisplayName, hist, clock, today>>

\* One recorded call: who acted, on which snapshot, and the stored document
\* before and after the write.
Call(op, uid, name, arg, snap, before, after) ==
  [op |-> op, uid |-> uid, name |-> name, arg |-> arg,
   snap |-> snap, before |-> before, after |-> after]

\* A schedule and a poll (single-choice or multi-choice, open to new options)
\* have just been created and every client has loaded them; the clients have
\* picked their display names, the same one or two different ones.
Init ==
  /\ schedule = NewSchedule
  /\ poll \in {NewPoll(m, TRUE) : m \in BOOLEAN}
  /\ schedules = [c \in Clients |-> schedule]
  /\ polls = [c \in Clients |-> poll]
  /\ userDisplayName \in {[c \in Clients |-> IF c = "u1" THEN "A" ELSE name] :
                            name \in Names}
  /\ hist = <<>>
  /\ clock = 0
  /\ today = [c \in Clients |-> clock]

\* ------------------------------------------- votes on the latest document

\* An RSVP click by uid under name, computed from the latest stored schedule.
ScheduleVote(uid, name, response) ==
  /\ Len(hist) < MaxOps
  /\ LET fields == handleScheduleVote(schedule, uid, name, response)
         after == UpdateDoc(schedule, fields)
     IN /\ schedule' = after
        /\ hist' = Append(hist, Call("rsvp", uid, name, response,
                                     schedule, schedule, after))
  /\ UNCHANGED <<poll, schedules, polls, userDisplayName, clock, today>>

NextRsvp ==
  \E uid \in Uids, name \in Names, response \in Responses :
    ScheduleVote(uid, name, response)

\* Only the schedule is voted on: the poll is a single-choice one, left alone.
InitRsvp ==
  /\ Init
  /\ poll = NewPoll(FALSE, TRUE)
  /\ userDisplayName = [c \in Clients |-> "A"]

SpecRsvp == InitRsvp /\ [][NextRsvp]_vars

\* A click on an option of the poll by uid under name, computed from the
\* latest stored poll.
Vote(uid, name, optionId) ==
  /\ Len(hist) < MaxPollOps
  /\ LET fields == handleVote(poll, uid, name, optionId)
         after == UpdateDoc(poll, fields)
     IN /\ poll' = after
        /\ hist' = Append(hist, Call("vote", uid, name, optionId,
                                     poll, poll, after))
  /\ UNCHANGED <<schedule, schedules, polls, userDisplayName, clock, today>>

NextPoll ==
  \E uid \in Uids, name \in Names, i \in 1..Len(poll.options) :
    Vote(uid, name, poll.options[i].id)

\* Only the poll is voted on, in single-choice or in multi-choice mode.
InitPoll ==
  /\ Init
  /\ userDisplayName = [c \in Clients |-> "A"]

SpecPoll == InitPoll /\ [][NextPoll]_vars

\* Votes under three of the MEMBER_NAMES: an identity that changes its display
\* name can take a name nobody holds while two other names are held.
MoreNames == {"A", "B", "C"}

NextNames ==
  \E uid \in Uids, name \in MoreNames, i \in 1..Len(poll.options) :
    Vote(uid, name, poll.options[i].id)

SpecNames == InitPoll /\ [][NextNames]_vars

\* ------------------------------------------------ clients and snapshots

\* Text typed into the new-option field, as characters.
OptionTexts == {<<" ", "x">>}

\* The text handed on as it was typed: newOptionText instead of
\* newOptionText.trim()
trimNothing(text) == text

\* newOptionText.trim()
RECURSIVE trimStart(_)
trimStart(text) ==
  IF text # <<>> /\ Head(text) = " " THEN trimStart(Tail(text)) ELSE text

RECURSIVE trimEnd(_)
trimEnd(text) ==
  IF text # <<>> /\ text[Len(text)] = " "
    THEN trimEnd(SubSeq(text, 1, Len(text) - 1)) ELSE text

trim(text) == trimEnd(trimStart(text))

\* `opt-${Date.now()}`: the clock has moved on since the options added
\* before, so the id is a new one.
newOptionId(calls) ==
  AddedOptionIds[1 + Len(SelectSeq(calls, LAMBDA call : call.op = "addOption"))]

\* addOptionToPoll: the field handed to updateDoc.
addOptionToPoll(p, id, newOptionText) ==
  [options |-> Append(p.options,
                      [id |-> id, text |-> trim(newOptionText), votes |-> 0])]

\* The schedule and the poll are separate documents and no handler reads one
\* to write the other: a behaviour records calls on one of the two.
CallsOnly(ops) == \A i \in 1..Len(hist) : hist[i].op \in ops

RsvpOps == {"rsvp"}
PollOps == {"vote", "addOption"}

\* handleSetDisplayName: the picker is rendered only while no name is set.
SetDisplayName(c, name) ==
  /\ userDisplayName[c] = Undefined
  /\ userDisplayName' = [userDisplayName EXCEPT ![c] = name]
  /\ UNCHANGED <<schedule, poll, schedules, polls, hist, clock, today>>

\* onSnapshot(scheduleCol, ...): the listener hands client c the stored
\* schedule, and the new state is rendered.
SyncSchedules(c) ==
  /\ schedules[c] # schedule
  /\ schedules' = [schedules EXCEPT ![c] = schedule]
  /\ today' = [today EXCEPT ![c] = clock]
  /\ UNCHANGED <<schedule, poll, polls, userDisplayName, hist, clock>>

\* onSnapshot(pollCol, ...): the listener hands client c the stored poll, and
\* the new state is rendered.
SyncPolls(c) ==
  /\ polls[c] # poll
  /\ polls' = [polls EXCEPT ![c] = poll]
  /\ today' = [today EXCEPT ![c] = clock]
  /\ UNCHANGED <<schedule, poll, schedules, userDisplayName, hist, clock>>

\* handleScheduleVote without its first line: the vote of a client without a
\* display name is computed and written like any other.
ClientScheduleVoteUnchecked(c, response) ==
  /\ Len(hist) < MaxStaleOps
  /\ CallsOnly(RsvpOps)
  /\ LET name == userDisplayName[c]
         after == UpdateDoc(schedule,
                    handleScheduleVote(schedules[c], c, name, response))
     IN /\ schedule' = after
        /\ hist' = Append(hist, Call("rsvp", c, name, response,
                                     schedules[c], schedule, after))
  /\ UNCHANGED <<poll, schedules, polls, userDisplayName, clock, today>>

\* handleScheduleVote on client c: nothing is written without a display name;
\* otherwise the fields computed from c's snapshot overwrite the stored ones.
ClientScheduleVote(c, response) ==
  /\ Len(hist) < MaxStaleOps
  /\ CallsOnly(RsvpOps)
  /\ LET name == userDisplayName[c]
         after == IF name = Undefined THEN schedule
                  ELSE UpdateDoc(schedule,
                         handleScheduleVote(schedules[c], c, name, response))
     IN /\ schedule' = after
        /\ hist' = Append(hist, Call("rsvp", c, name, response,
                                     schedules[c], schedule, after))
  /\ UNCHANGED <<poll, schedules, polls, userDisplayName, clock, today>>

\* handleVote reading the stored poll instead of the client's snapshot: a
\* second click is computed from what the first one wrote.
ClientVoteFromStored(c, optionId) ==
  /\ Len(hist) < MaxStaleOps
  /\ CallsOnly(PollOps)
  /\ LET name == userDisplayName[c]
         after == IF name = Undefined THEN poll
                  ELSE UpdateDoc(poll, handleVote(poll, c, name, optionId))
     IN /\ poll' = after
        /\ hist' = Append(hist, Call("vote", c, name, optionId,
                                     polls[c], poll, after))
  /\ UNCHANGED <<schedule, schedules, polls, userDisplayName, clock, today>>

\* handleVote on client c, for an option button of c's snapshot.
ClientVote(c, optionId) ==
  /\ Len(hist) < MaxStaleOps
  /\ CallsOnly(PollOps)
  /\ LET name == userDisplayName[c]
         after == IF name = Undefined THEN poll
                  ELSE UpdateDoc(poll,
                         handleVote(polls[c], c, name, optionId))
     IN /\ poll' = after
        /\ hist' = Append(hist, Call("vote", c, name, optionId,
                                     polls[c], poll, after))
  /\ UNCHANGED <<schedule, schedules, polls, userDisplayName, clock, today>>

\* addOptionToPoll on client c: nothing is written for an empty text or for a
\* poll without allowAddOptions; otherwise the snapshot's options plus the new
\* one overwrite the stored options.
ClientAddOption(c, newOptionText) ==
  /\ Len(hist) < MaxStaleOps
  /\ CallsOnly(PollOps)
  /\ LET id == newOptionId(hist)
         after == IF trim(newOptionText) = <<>> \/ ~polls[c].allowAddOptions
                    THEN poll
                    ELSE UpdateDoc(poll,
                           addOptionToPoll(polls[c], id, newOptionText))
     IN /\ poll' = after
        /\ hist' = Append(hist, Call("addOption", c, userDisplayName[c],
                                     <<id, newOptionText>>,
                                     polls[c], poll, after))
  /\ UNCHANGED <<schedule, schedules, polls, userDisplayName, clock, today>>

Next ==
  \/ \E c \in Clients : SyncSchedules(c)
  \/ \E c \in Clients : SyncPolls(c)
  \/ \E c \in Clients, response \in Responses : ClientScheduleVote(c, response)
  \/ \E c \in Clients : \E i \in 1..Len(polls[c].options) :
       ClientVote(c, polls[c].options[i].id)
  \/ \E c \in Clients, text \in OptionTexts : ClientAddOption(c, text)

Spec == Init /\ [][Next]_vars

\* ------------------------------------------------------ the name picker

\* The clients open the application for the first time: localStorage holds no
\* display name.
InitPicker ==
  /\ schedule = NewSchedule
  /\ poll \in {NewPoll(m, TRUE) : m \in BOOLEAN}
  /\ schedules = [c \in Clients |-> schedule]
  /\ polls = [c \in Clients |-> poll]
  /\ userDisplayName = [c \in Clients |-> Undefined]
  /\ hist = <<>>
  /\ clock = 0
  /\ today = [c \in Clients |-> clock]

\* The handlers may be called before and after a name is picked.
NextPicker ==
  \/ \E c \in Clients, name \in Names : SetDisplayName(c, name)
  \/ \E c \in Clients : SyncSchedules(c)
  \/ \E c \in Clients : SyncPolls(c)
  \/ \E c \in Clients, response \in Responses :
       Len(hist) < MaxPickerOps /\ ClientScheduleVote(c, response)
  \/ \E c \in Clients : \E i \in 1..Len(polls[c].options) :
       Len(hist) < MaxPickerOps /\ ClientVote(c, polls[c].options[i].id)

SpecPicker == InitPicker /\ [][NextPicker]_vars

\* ------------------------------------------------------ polls that end

\* addPoll with an end date: endDate is stored with the poll. Dates are
\* 'YYYY-MM-DD' strings, compared as strings; the model numbers the days.
NewPollEnding(allowMultiple, endDate) ==
  [k \in DOMAIN NewPoll(allowMultiple, TRUE) \cup {"endDate"} |->
     IF k = "endDate" THEN endDate ELSE NewPoll(allowMultiple, TRUE)[k]]

\* isExpired: poll.endDate ? poll.endDate < today : false
isExpired(p, day) == "endDate" \in DOMAIN p /\ p.endDate < day

canVote(p, day) == ~isExpired(p, day)

\* A poll that ends on one of the coming days has just been created and
\* loaded by every client; the clients have picked different display names.
InitExpiry ==
  /\ schedule = NewSchedule
  /\ poll \in {NewPollEnding(m, d) : m \in BOOLEAN, d \in 0..MaxDay}
  /\ schedules = [c \in Clients |-> schedule]
  /\ polls = [c \in Clients |-> poll]
  /\ userDisplayName = [c \in Clients |-> IF c = "u1" THEN "A" ELSE "B"]
  /\ hist = <<>>
  /\ clock = 0
  /\ today = [c \in Clients |-> clock]

\* The date changes.
Midnight ==
  /\ clock < MaxDay
  /\ clock' = clock + 1
  /\ UNCHANGED <<schedule, poll, schedules, polls, userDisplayName, hist,
                 today>>

\* Client c renders again (any state change of the component): today is
\* computed anew.
Render(c) ==
  /\ today[c] # clock
  /\ today' = [today EXCEPT ![c] = clock]
  /\ UNCHANGED <<schedule, poll, schedules, polls, userDisplayName, hist,
                 clock>>

\* An option button of client c's poll card: disabled={!canVote},
\* onClick={() => canVote && handleVote(poll.id, opt.id)}
OptionButton(c, optionId) ==
  /\ canVote(polls[c], today[c])
  /\ Len(hist) < MaxExpiryOps
  /\ ClientVote(c, optionId)

\* The add-option form of client c's poll card, rendered when
\* poll.allowAddOptions.
AddOptionForm(c, newOptionText) ==
  /\ polls[c].allowAddOptions
  /\ Len(hist) < MaxExpiryOps
  /\ ClientAddOption(c, newOptionText)

NextExpiry ==
  \/ Midnight
  \/ \E c \in Clients : Render(c)
  \/ \E c \in Clients : SyncPolls(c)
  \/ \E c \in Clients : \E i \in 1..Len(polls[c].options) :
       OptionButton(c, polls[c].options[i].id)
  \/ \E c \in Clients, text \in OptionTexts : AddOptionForm(c, text)

SpecExpiry == InitExpiry /\ [][NextExpiry]_vars

\* ------------------------------------------------- refused new options

\* Texts typed into the new-option field, among them the empty text and a
\* text of spaces.
TypedTexts == {<<>>, <<" ">>, <<" ", "x">>}

\* A poll, open to new options or not, has just been created and loaded by
\* every client; the clients have picked different display names.
InitAddOption ==
  /\ schedule = NewSchedule
  /\ poll \in {NewPoll(m, a) : m \in BOOLEAN, a \in BOOLEAN}
  /\ schedules = [c \in Clients |-> schedule]
  /\ polls = [c \in Clients |-> poll]
  /\ userDisplayName = [c \in Clients |-> IF c = "u1" THEN "A" ELSE "B"]
  /\ hist = <<>>
  /\ clock = 0
  /\ today = [c \in Clients |-> clock]

\* addOptionToPoll may be called with any text, on any poll.
NextAddOption ==
  \/ \E c \in Clients : SyncPolls(c)
  \/ \E c \in Clients : \E i \in 1..Len(polls[c].options) :
       Len(hist) < MaxAddOps /\ ClientVote(c, polls[c].options[i].id)
  \/ \E c \in Clients, text \in TypedTexts :
       Len(hist) < MaxAddOps /\ ClientAddOption(c, text)

SpecAddOption == InitAddOption /\ [][NextAddOption]_vars

\* ------------------------------------------------ editing beside voting

\* Number of handler calls recorded in one behaviour with edits.
MaxEditOps == 2

\* The form of the schedule that has been created.
CreatedForm ==
  [title |-> "t", date |-> "d", time |-> "", location |-> "", desc |-> ""]

\* What a user may have typed into the schedule form (newSchedule) when the
\* form is submitted: the title or the date may have been emptied.
ScheduleForms ==
  {[title |-> t, date |-> d, time |-> "x", location |-> "x", desc |-> "x"] :
     t \in {"", "t2"}, d \in {"", "d2"}}

\* What a user may have typed into the description field of a poll.
DescTexts == {<<" ">>, <<" ", "d">>}

\* addSchedule: the form's fields, the creator and the empty lists; updatedAt
\* and attendeeDisplayNames are written later.
addSchedule(newSchedule, uid) ==
  NewSchedule @@ newSchedule
    @@ [createdAt |-> 0, creator |-> uid, updatedAt |-> Undefined]

\* addPoll with an empty description.
NewPollDescribed(allowMultiple) ==
  NewPoll(allowMultiple, TRUE) @@ [desc |-> <<>>, creator |-> "u1"]

\* updateSchedule: the fields handed to updateDoc.
updateSchedule(newSchedule, now) ==
  [title |-> newSchedule.title,
   date |-> newSchedule.date,
   time |-> newSchedule.time,
   location |-> newSchedule.location,
   desc |-> newSchedule.desc,
   updatedAt |-> now]

\* updatePollDesc: the field handed to updateDoc.
updatePollDesc(editingPollDesc) == [desc |-> trim(editingPollDesc)]

ScheduleOps == {"rsvp", "updateSchedule"}
DescribedPollOps == {"vote", "updatePollDesc"}

InitEdit ==
  /\ schedule = addSchedule(CreatedForm, "u1")
  /\ poll \in {NewPollDescribed(m) : m \in BOOLEAN}
  /\ schedules = [c \in Clients |-> schedule]
  /\ polls = [c \in Clients |-> poll]
  /\ userDisplayName = [c \in Clients |-> IF c = "u1" THEN "A" ELSE "B"]
  /\ hist = <<>>
  /\ clock = 0
  /\ today = [c \in Clients |-> clock]

\* updateSchedule writing the whole event of the client's snapshot with the
\* form's fields in it.
ClientUpdateScheduleWhole(c, newSchedule) ==
  /\ Len(hist) < MaxEditOps
  /\ CallsOnly(ScheduleOps)
  /\ LET now == Len(hist) + 1
         after == IF newSchedule.title = "" \/ newSchedule.date = ""
                  THEN schedule
                  ELSE UpdateDoc(schedule,
                         UpdateDoc(schedules[c],
                                   updateSchedule(newSchedule, now)))
     IN /\ schedule' = after
        /\ hist' = Append(hist, Call("updateSchedule", c, userDisplayName[c],
                                     newSchedule, schedules[c], schedule,
                                     after))
  /\ UNCHANGED <<poll, schedules, polls, userDisplayName, clock, today>>

\* updateSchedule on client c: nothing is written without a title or a date;
\* Date.now() grows with every call.
ClientUpdateSchedule(c, newSchedule) ==
  /\ Len(hist) < MaxEditOps
  /\ CallsOnly(ScheduleOps)
  /\ LET now == Len(hist) + 1
         after == IF newSchedule.title = "" \/ newSchedule.date = ""
                  THEN schedule
                  ELSE UpdateDoc(schedule, updateSchedule(newSchedule, now))
     IN /\ schedule' = after
        /\ hist' = Append(hist, Call("updateSchedule", c, userDisplayName[c],
                                     newSchedule, schedules[c], schedule,
                                     after))
  /\ UNCHANGED <<poll, schedules, polls, userDisplayName, clock, today>>

\* updatePollDesc on client c.
ClientUpdatePollDesc(c, editingPollDesc) ==
  /\ Len(hist) < MaxEditOps
  /\ CallsOnly(DescribedPollOps)
  /\ LET after == UpdateDoc(poll, updatePollDesc(editingPollDesc))
     IN /\ poll' = after
        /\ hist' = Append(hist, Call("updatePollDesc", c, userDisplayName[c],
                                     editingPollDesc, polls[c], poll, after))
  /\ UNCHANGED <<schedule, schedules, polls, userDisplayName, clock, today>>

\* handleScheduleVote on client c, on an event that may be edited meanwhile.
ScheduleVoteBesideEdit(c, response) ==
  /\ Len(hist) < MaxEditOps
  /\ CallsOnly(ScheduleOps)
  /\ LET name == userDisplayName[c]
         after == UpdateDoc(schedule,
                    handleScheduleVote(schedules[c], c, name, response))
     IN /\ schedule' = after
        /\ hist' = Append(hist, Call("rsvp", c, name, response,
                                     schedules[c], schedule, after))
  /\ UNCHANGED <<poll, schedules, polls, userDisplayName, clock, today>>

\* handleVote on client c, on a poll whose description may be edited
\* meanwhile.
VoteBesideEdit(c, optionId) ==
  /\ Len(hist) < MaxEditOps
  /\ CallsOnly(DescribedPollOps)
  /\ LET name == userDisplayName[c]
         after == UpdateDoc(poll, handleVote(polls[c], c, name, optionId))
     IN /\ poll' = after
        /\ hist' = Append(hist, Call("vote", c, name, optionId,
                                     polls[c], poll, after))
  /\ UNCHANGED <<schedule, schedules, polls, userDisplayName, clock, today>>

NextEdit ==
  \/ \E c \in Clients : SyncSchedules(c)
  \/ \E c \in Clients : SyncPolls(c)
  \/ \E c \in Clients, response \in Responses :
       ScheduleVoteBesideEdit(c, response)
  \/ \E c \in Clients, newSchedule \in ScheduleForms :
       ClientUpdateSchedule(c, newSchedule)
  \/ \E c \in Clients : \E i \in 1..Len(polls[c].options) :
       VoteBesideEdit(c, polls[c].options[i].id)
  \/ \E c \in Clients, editingPollDesc \in DescTexts :
       ClientUpdatePollDesc(c, editingPollDesc)

SpecEdit == InitEdit /\ [][NextEdit]_vars

\* ----------------------------------------------------- reading a document

Last == hist[Len(hist)]

\* The lists of a schedule, by response.
ListOf(sched, response) ==
  CASE response = "attend" -> sched.attendees
    [] response = "notAttend" -> sched.notAttendees
    [] response = "undecided" -> sched.undecided

\* The responses whose list holds uid.
ResponsesOf(sched, uid) ==
  {r \in Responses : uid \in Range(ListOf(sched, r))}

\* How many list entries belong to identities mapped to the display name.
EntriesOfName(sched, name) ==
  LET byName(arr) ==
        Len(SelectSeq(arr, LAMBDA uid :
                             Get(sched.attendeeDisplayNames, uid) = name))
  IN byName(sched.attendees) + byName(sched.notAttendees)
       + byName(sched.undecided)

\* The sum over votedUserOptions of the number of selected option ids.
RECURSIVE selectionsOver(_, _)
selectionsOver(votedUserOpts, uids) ==
  IF uids = {} THEN 0
  ELSE LET uid == CHOOSE u \in uids : TRUE
       IN Len(votedUserOpts[uid])
            + selectionsOver(votedUserOpts, uids \ {uid})

SelectionCount(p) ==
  selectionsOver(p.votedUserOptions, DOMAIN p.votedUserOptions)

\* totalVotes, the options' votes and the recorded selections agree.
CountsAgree(p) ==
  /\ p.totalVotes = sumVotes(p.options)
  /\ p.totalVotes = SelectionCount(p)

\* ------------------------------------------------------------------ claims

\* C1: after any sequence of RSVP votes on a schedule created with three empty
\* lists, no connection identity is in more than one of attendees,
\* notAttendees and undecided.
C1_ListsDisjoint ==
  \A uid \in Uids : Cardinality(ResponsesOf(schedule, uid)) <= 1

\* C2: after any sequence of RSVP votes, for every display name at most one
\* entry of the three lists taken together belongs to an identity mapped to
\* that name in attendeeDisplayNames.
C2_OneEntryPerName ==
  \A name \in Names : EntriesOfName(schedule, name) <= 1

\* C3: after any sequence of poll votes (single-choice or multi-choice) on a
\* poll created with all counts zero, each computed from the latest stored
\* poll, totalVotes equals the sum of the options' votes and the sum over
\* votedUserOptions of the number of selected option ids.
C3_CountsAgree == CountsAgree(poll)

\* Identity `a` is recorded in the schedule under a response other than
\* `response`, with the display name `name`.
RecordedElsewhere(sched, a, name, response) ==
  /\ Get(sched.attendeeDisplayNames, a) = name
  /\ \E r1 \in Responses \ {response} : a \in Range(ListOf(sched, r1))

\* The last call was an RSVP vote by a second identity under the name that
\* identity `a` holds another response with.
SupersedingVote(a) ==
  /\ hist # <<>>
  /\ Last.op = "rsvp"
  /\ a # Last.uid
  /\ RecordedElsewhere(Last.snap, a, Last.name, Last.arg)

\* C7: when identity A is recorded under response r1 with display name n, an
\* RSVP vote by another identity B under the same name n with another response
\* r2 leaves A in none of the lists and without display-name entry, and B in
\* exactly the list of r2 with attendeeDisplayNames[B] = n.
C7_SecondDeviceSupersedes ==
  \A a \in Uids :
    SupersedingVote(a) =>
      /\ ResponsesOf(schedule, a) = {}
      /\ a \notin DOMAIN schedule.attendeeDisplayNames
      /\ ResponsesOf(schedule, Last.uid) = {Last.arg}
      /\ Count(ListOf(schedule, Last.arg), Last.uid) = 1
      /\ Get(schedule.attendeeDisplayNames, Last.uid) = Last.name

\* The schedule stored after a vote computed from sched and written to it.
Cast(sched, uid, name, response) ==
  UpdateDoc(sched, handleScheduleVote(sched, uid, name, response))

\* uid is in the list of the response, under the display name.
Holds(sched, uid, name, response) ==
  /\ uid \in Range(ListOf(sched, response))
  /\ Get(sched.attendeeDisplayNames, uid) = name

\* uid is in none of the lists and has no display-name entry.
HoldsNothing(sched, uid) ==
  /\ ResponsesOf(sched, uid) = {}
  /\ uid \notin DOMAIN sched.attendeeDisplayNames

\* The identities of `others` have the same list entries and the same
\* display-name entry in both schedules.
SameFor(others, s1, s2) ==
  \A v \in others :
    /\ \A r \in Responses : Count(ListOf(s1, r), v) = Count(ListOf(s2, r), v)
    /\ Get(s1.attendeeDisplayNames, v) = Get(s2.attendeeDisplayNames, v)

\* Calls i and i + 1 of hist are the same click by the same identity under the
\* same display name, the second computed from the result of the first.
Repeated(i) ==
  /\ i + 1 <= Len(hist)
  /\ hist[i + 1].op = hist[i].op
  /\ hist[i + 1].uid = hist[i].uid
  /\ hist[i + 1].name = hist[i].name
  /\ hist[i + 1].arg = hist[i].arg
  /\ hist[i + 1].snap = hist[i].after

\* s1, s2, s3 follow s0 by three casts of response by uid under name: the
\* voter holds the response, then nothing, then the response again, and the
\* identities of `others` keep what they had in s0.
ToggleCycle(s0, s1, s2, s3, uid, name, response, others) ==
  /\ Holds(s1, uid, name, response)
  /\ HoldsNothing(s2, uid)
  /\ Holds(s3, uid, name, response)
  /\ SameFor(others, s0, s1)
  /\ SameFor(others, s0, s2)
  /\ SameFor(others, s0, s3)

\* C8 as claimed: from any schedule, three casts in a row of the same response
\* by the same identity under the same display name leave the voter holding
\* the response, then nothing, then the response again, every other
\* identity's responses being the same after each call.
C8_ToggleCycleFromAnyEvent ==
  \A uid \in Uids, name \in Names, r \in Responses :
    LET s1 == Cast(schedule, uid, name, r)
        s2 == Cast(s1, uid, name, r)
        s3 == Cast(s2, uid, name, r)
    IN ToggleCycle(schedule, s1, s2, s3, uid, name, r, Uids \ {uid})

\* No identity mapped to the display name is in the list of the response.
NameFreeOf(sched, name, response) ==
  ~someByName(ListOf(sched, response), sched.attendeeDisplayNames, name)

\* The identities other than uid that are not mapped to the display name.
OtherNames(sched, uid, name) ==
  {v \in Uids \ {uid} : Get(sched.attendeeDisplayNames, v) # name}

\* C8, amended: from any schedule in which the voter's display name does not
\* already hold the response, three casts in a row leave the voter holding
\* the response, then nothing (in no list, no display-name entry), then the
\* response again; the identities mapped to other display names keep their
\* responses after each call. Stated for every reachable schedule and for the
\* three calls when they were made.
C8_ToggleCycle ==
  /\ \A uid \in Uids, name \in Names, r \in Responses :
       NameFreeOf(schedule, name, r) =>
         LET s1 == Cast(schedule, uid, name, r)
             s2 == Cast(s1, uid, name, r)
             s3 == Cast(s2, uid, name, r)
         IN /\ ToggleCycle(schedule, s1, s2, s3, uid, name, r,
                           OtherNames(schedule, uid, name))
            /\ ResponsesOf(s3, uid) = {r}
  /\ \A i \in 1..Len(hist) :
       (/\ hist[i].op = "rsvp"
        /\ NameFreeOf(hist[i].snap, hist[i].name, hist[i].arg)
        /\ Repeated(i) /\ Repeated(i + 1)) =>
         ToggleCycle(hist[i].snap, hist[i].after, hist[i + 1].after,
                     hist[i + 2].after, hist[i].uid, hist[i].name,
                     hist[i].arg,
                     OtherNames(hist[i].snap, hist[i].uid, hist[i].name))

\* Three casts in a row have been made, by one identity under one name.
C8_ThreeCastsMade ==
  /\ Len(hist) = 3
  /\ hist[1].op = "rsvp"
  /\ NameFreeOf(hist[1].snap, hist[1].name, hist[1].arg)
  /\ Repeated(1) /\ Repeated(2)
  /\ Holds(schedule, hist[1].uid, hist[1].name, hist[1].arg)

\* The option ids uid has selected in the poll.
SelectionOf(p, uid) ==
  IF uid \in DOMAIN p.votedUserOptions
    THEN Range(p.votedUserOptions[uid]) ELSE {}

\* The votes of the poll's options, position by position.
VotesOf(p) == [i \in 1..Len(p.options) |-> p.options[i].votes]

\* C9: in a multi-choice poll, when the same identity under the same display
\* name clicks the same option twice in a row, the option counts, totalVotes
\* and the voter's selection after the second click are those before the
\* first click.
C9_SecondClickWithdraws ==
  \A i \in 1..Len(hist) :
    (/\ hist[i].op = "vote"
     /\ hist[i].snap.allowMultiple
     /\ Repeated(i)) =>
      /\ VotesOf(hist[i + 1].after) = VotesOf(hist[i].snap)
      /\ hist[i + 1].after.totalVotes = hist[i].snap.totalVotes
      /\ SelectionOf(hist[i + 1].after, hist[i].uid)
           = SelectionOf(hist[i].snap, hist[i].uid)

\* C10: in a multi-choice poll, when a voter (same identity, same display
\* name) who has the set S selected clicks an option x outside S, the recorded
\* selection becomes S plus x, every option keeps its count and only x's
\* count rises by 1.
C10_ClickAddsToSelection ==
  (/\ hist # <<>>
   /\ Last.op = "vote"
   /\ Last.snap.allowMultiple
   /\ Get(Last.snap.voterDisplayNames, Last.uid) = Last.name
   /\ Last.arg \notin SelectionOf(Last.snap, Last.uid)) =>
    /\ SelectionOf(poll, Last.uid)
         = SelectionOf(Last.snap, Last.uid) \cup {Last.arg}
    /\ \A i \in 1..Len(poll.options) :
         poll.options[i].votes =
           Last.snap.options[i].votes
             + (IF poll.options[i].id = Last.arg THEN 1 ELSE 0)

\* The voter entries of uid (selection, votedUsers membership, display name)
\* are the same in both polls.
SameVoter(uid, p1, p2) ==
  /\ SelectionOf(p1, uid) = SelectionOf(p2, uid)
  /\ Count(p1.votedUsers, uid) = Count(p2.votedUsers, uid)
  /\ Get(p1.voterDisplayNames, uid) = Get(p2.voterDisplayNames, uid)

\* What document d records for uid is what document r records for it.
SameEntries(op, uid, r, d) ==
  IF op = "rsvp" THEN SameFor({uid}, r, d) ELSE SameVoter(uid, r, d)

\* Calls i and i + 1 are votes on the same document by two clients with
\* different identities and different display names, computed from the same
\* snapshot and written one after the other.
Race(i) ==
  /\ i + 1 <= Len(hist)
  /\ hist[i].op \in {"rsvp", "vote"}
  /\ hist[i + 1].op = hist[i].op
  /\ hist[i + 1].uid # hist[i].uid
  /\ hist[i + 1].name # hist[i].name
  /\ hist[i + 1].snap = hist[i].snap

VoteFields(op) ==
  IF op = "rsvp"
    THEN {"attendees", "notAttendees", "undecided", "attendeeDisplayNames"}
    ELSE {"options", "totalVotes", "votedUserOptions", "votedUsers",
          "voterDisplayNames"}

\* The document a vote computed from snap would store if nothing else had been
\* written since the snapshot.
AloneResult(call) ==
  IF call.op = "rsvp"
    THEN Cast(call.snap, call.uid, call.name, call.arg)
    ELSE UpdateDoc(call.snap,
                   handleVote(call.snap, call.uid, call.name, call.arg))

C5_StoredCountsAgree == CountsAgree(poll)

\* The identities a poll's voter structures map to a display name.
VotersNamed(p, name) ==
  {uid \in Range(p.votedUsers) \union DOMAIN p.votedUserOptions
         \union DOMAIN p.voterDisplayNames :
     Get(p.voterDisplayNames, uid) = name}

\* 1 when option id is in the selection, else 0.
Selects(selection, id) == IF id \in selection THEN 1 ELSE 0

\* The last call is a vote by a second device: its snapshot records another
\* identity under the voter's display name, and does not record the voter
\* under another name.
SecondDeviceVote ==
  /\ hist # <<>>
  /\ Last.op = "vote"
  /\ VotersNamed(Last.snap, Last.name) \ {Last.uid} # {}
  /\ Get(Last.snap.voterDisplayNames, Last.uid) \in {Undefined, Last.name}

\* The written poll no longer records the first device, and each option's
\* count is the snapshot's count less the selections the snapshot records for
\* the first device and for the voter, plus the voter's new selection.
Replaced ==
  LET computed == AloneResult(Last)
  IN /\ VotersNamed(computed, Last.name) \subseteq {Last.uid}
     /\ \A old \in VotersNamed(Last.snap, Last.name) \ {Last.uid} :
          /\ SelectionOf(computed, old) = {}
          /\ Count(computed.votedUsers, old) = 0
          /\ Get(computed.voterDisplayNames, old) = Undefined
     /\ \A f \in VoteFields("vote") : Last.after[f] = computed[f]
     /\ \A i \in 1..Len(Last.snap.options) :
          LET id == Last.snap.options[i].id
              leaving == {old \in VotersNamed(Last.snap, Last.name)
                                     \union {Last.uid} :
                            Selects(SelectionOf(Last.snap, old), id) = 1}
          IN computed.options[i].votes =
               Last.snap.options[i].votes - Cardinality(leaving)
                 + Selects(SelectionOf(computed, Last.uid), id)

\* C6: in every stored poll reached by votes, at most one identity is mapped
\* to any display name in the voter structures, and a second device voting
\* under the same name replaces the first device's vote and its contribution
\* to the option counts.
C6_OneIdentityPerName ==
  CallsOnly({"vote"}) =>
    /\ \A name \in Names : Cardinality(VotersNamed(poll, name)) <= 1
    /\ SecondDeviceVote => Replaced

\* A second device has voted under the display name of a first device whose
\* vote was stored, and the poll now records the second device in its place.
C6_SecondDeviceVoted ==
  /\ CallsOnly({"vote"})
  /\ SecondDeviceVote
  /\ SelectionOf(Last.snap, "u1") # {}
  /\ Last.uid = "u2"
  /\ SelectionOf(poll, "u2") # {}
  /\ SelectionOf(poll, "u1") = {}

\* Calls 1 to 3 are the clicks o1, o2, o1 of one voter (same identity, same
\* display name) on a new multi-choice poll.
ThreeClicks ==
  /\ Len(hist) >= 3
  /\ hist[1].snap.allowMultiple
  /\ \A i \in 1..3 :
       /\ hist[i].op = "vote"
       /\ hist[i].uid = hist[1].uid
       /\ hist[i].name = hist[1].name
  /\ <<hist[1].arg, hist[2].arg, hist[3].arg>> = <<"o1", "o2", "o1">>

\* C11: in a multi-choice poll with options o1 and o2 and no votes, after one
\* voter clicks o1, then o2, then o1 again, the voter's recorded selection is
\* exactly {o2} and totalVotes is 1.
C11_ThirdClickLeavesSecond ==
  ThreeClicks =>
    /\ SelectionOf(hist[3].after, hist[1].uid) = {"o2"}
    /\ hist[3].after.totalVotes = 1

\* The last call is a single-choice vote computed from a poll in which the
\* acting display name holds a vote; Held is the option it holds.
Held == getMyPollSelectedIds(Last.snap, Last.name)[1]

NamedVote ==
  /\ hist # <<>>
  /\ Last.op = "vote"
  /\ ~Last.snap.allowMultiple
  /\ getMyPollSelectedIds(Last.snap, Last.name) # <<>>

\* The count of every option of the written poll is the snapshot's count
\* plus delta[id], for the ids delta names, and the snapshot's count otherwise.
CountsMoved(delta) ==
  \A i \in 1..Len(Last.snap.options) :
    LET id == Last.snap.options[i].id
    IN Last.after.options[i].votes =
         Last.snap.options[i].votes
           + (IF id \in DOMAIN delta THEN delta[id] ELSE 0)

\* C12: in a single-choice poll, a vote for the option the acting display name
\* holds is a withdrawal: no identity mapped to the name stays in the voter
\* structures, the option's count and totalVotes are 1 lower and the other
\* counts are unchanged.
C12_SameOptionWithdraws ==
  (NamedVote /\ Last.arg = Held) =>
    /\ VotersNamed(Last.after, Last.name) = {}
    /\ CountsMoved((Held :> -1))
    /\ Last.after.totalVotes = Last.snap.totalVotes - 1

\* C13: in a single-choice poll, a vote under a display name that holds
\* option X for another option Y lowers X's count by 1, raises Y's by 1,
\* leaves the other counts and totalVotes unchanged.
C13_TransferKeepsTotal ==
  (NamedVote /\ Last.arg # Held) =>
    /\ CountsMoved((Held :> -1) @@ (Last.arg :> 1))
    /\ Last.after.totalVotes = Last.snap.totalVotes

\* C14: in a single-choice poll, after any sequence of votes by any identities
\* and display names, every entry of votedUserOptions holds at most one
\* option id.
C14_OneSelectionEach ==
  ~poll.allowMultiple =>
    \A uid \in DOMAIN poll.votedUserOptions :
      Len(poll.votedUserOptions[uid]) <= 1

\* Two identities hold a vote in a single-choice poll, one of them after
\* having changed its display name and its vote.
C14_VotesChanged ==
  /\ ~poll.allowMultiple
  /\ Len(hist) >= 3
  /\ Cardinality({uid \in DOMAIN poll.votedUserOptions :
                    Len(poll.votedUserOptions[uid]) = 1}) >= 2
  /\ \E i, j \in 1..Len(hist) :
       /\ i < j
       /\ hist[i].uid = hist[j].uid
       /\ hist[i].name # hist[j].name
       /\ hist[i].arg # hist[j].arg

\* C15: after any sequence of votes on a poll created without votes,
\* votedUsers holds exactly the identities whose entry in votedUserOptions is
\* a non-empty list, each of them once.
C15_VotersAreSelectors ==
  /\ Range(poll.votedUsers) =
       {uid \in DOMAIN poll.votedUserOptions :
          poll.votedUserOptions[uid] # <<>>}
  /\ \A uid \in Range(poll.votedUsers) : Count(poll.votedUsers, uid) = 1

\* A voter has withdrawn its only selection in a multi-choice poll: its entry
\* in votedUserOptions is the empty list and votedUsers no longer has it.
C15_SelectionEmptied ==
  /\ hist # <<>>
  /\ Last.uid \in DOMAIN poll.votedUserOptions
  /\ poll.votedUserOptions[Last.uid] = <<>>
  /\ Count(Last.snap.votedUsers, Last.uid) = 1
  /\ Count(poll.votedUsers, Last.uid) = 0

\* C16: under any interleaving of votes and add-option calls by clients with
\* stale snapshots, no stored option has votes below 0 and totalVotes is not
\* below 0.
C16_CountsNotNegative ==
  /\ \A i \in 1..Len(poll.options) : poll.options[i].votes >= 0
  /\ poll.totalVotes >= 0

\* A vote has been computed from a poll in which the voter's display name
\* holds an option whose count is 0, so that the roll-back has nothing to
\* take away.
C16_RolledBackAtZero ==
  /\ hist # <<>>
  /\ Last.op = "vote"
  /\ \E uid \in uidsToRemove(Last.snap, Last.name) :
       \E i \in 1..Len(Last.snap.options) :
         /\ Last.snap.options[i].id \in SelectionOf(Last.snap, uid)
         /\ Last.snap.options[i].votes = 0
  /\ poll = Last.after

\* C17: after every RSVP vote on a schedule created empty, the keys of
\* attendeeDisplayNames are exactly the identities in attendees, notAttendees
\* or undecided.
C17_NamesMatchLists ==
  DOMAIN schedule.attendeeDisplayNames =
    Range(schedule.attendees) \cup Range(schedule.notAttendees)
      \cup Range(schedule.undecided)

\* A voter has withdrawn its response while another identity stays listed:
\* the voter's display-name entry is gone and the other's is kept.
C17_EntryDropped ==
  /\ hist # <<>>
  /\ Last.uid \in DOMAIN Last.snap.attendeeDisplayNames
  /\ Last.uid \notin DOMAIN schedule.attendeeDisplayNames
  /\ schedule.attendeeDisplayNames # EmptyObj

\* An option id that no poll has.
UnknownOptionId == "o0"

\* C18: a vote for an option id that is not among the poll's options leaves
\* the stored poll unchanged: options, totalVotes, votedUserOptions,
\* votedUsers and voterDisplayNames keep their values.
C18_UnknownOptionIgnored ==
  \A uid \in Uids, name \in Names :
    UpdateDoc(poll, handleVote(poll, uid, name, UnknownOptionId)) = poll

\* The identities a schedule lists and those a poll counts as voters.
ListedIn(sched) ==
  Range(sched.attendees) \cup Range(sched.notAttendees)
    \cup Range(sched.undecided)

\* C19: an RSVP vote or a poll vote made while the client has no display name
\* writes nothing, and no listed identity or voter is recorded without a
\* display name.
C19_NoNameNoWrite ==
  /\ \A i \in 1..Len(hist) :
       hist[i].name = Undefined => hist[i].after = hist[i].before
  /\ \A uid \in ListedIn(schedule) :
       Get(schedule.attendeeDisplayNames, uid) \in Names
  /\ \A uid \in Range(poll.votedUsers) :
       Get(poll.voterDisplayNames, uid) \in Names

\* A client without a display name has called a vote handler on a document
\* that already records the vote of a client with a name.
C19_CalledWithoutName ==
  /\ Len(hist) >= 2
  /\ Last.name = Undefined
  /\ hist[1].name \in Names
  /\ Last.before # Last.snap

\* C20: once the current date is later than the poll's endDate, no vote and
\* no add-option call changes the stored poll.
C20_ReadOnlyPastEndDate ==
  [][isExpired(poll, clock) => poll' = poll]_vars

\* The ids of the options, position by position.
IdsOf(p) == [i \in 1..Len(p.options) |-> p.options[i].id]

\* C21: an add-option call on a poll with allowAddOptions, in any
\* interleaving with votes and with a snapshot that may be older than the
\* stored poll, leaves the stored count of every existing option unchanged
\* and appends one new option with votes 0.
C21_AddOptionKeepsCounts ==
  \A k \in 1..Len(hist) :
    (hist[k].op = "addOption" /\ hist[k].snap.allowAddOptions) =>
      /\ Len(hist[k].after.options) = Len(hist[k].before.options) + 1
      /\ \A i \in 1..Len(hist[k].before.options) :
           /\ i <= Len(hist[k].after.options)
           /\ hist[k].after.options[i].id = hist[k].before.options[i].id
           /\ hist[k].after.options[i].votes = hist[k].before.options[i].votes
      /\ hist[k].after.options[Len(hist[k].after.options)].votes = 0

\* C22: under any interleaving of votes and add-option calls by clients with
\* possibly stale snapshots, an option that has been stored is at the same
\* position in every later stored state of the poll.
C22_OptionsOnlyGrow ==
  \A k \in 1..Len(hist) :
    hist[k].op \in PollOps =>
      /\ Len(hist[k].before.options) <= Len(hist[k].after.options)
      /\ SubSeq(IdsOf(hist[k].after), 1, Len(hist[k].before.options))
           = IdsOf(hist[k].before)

\* The text is empty or consists of spaces.
Blank(text) == \A i \in 1..Len(text) : text[i] = " "

\* The add-option call is one that must be refused.
Refused(call) ==
  /\ call.op = "addOption"
  /\ ~call.snap.allowAddOptions \/ Blank(call.arg[2])

\* C23: an add-option call on a poll whose allowAddOptions is false, or with
\* a text that is empty after trimming, writes nothing: the stored poll is
\* unchanged.
C23_RefusedAddWritesNothing ==
  \A k \in 1..Len(hist) : Refused(hist[k]) => hist[k].after = hist[k].before

\* An add-option call with a text of spaces has been made on a poll that
\* takes new options and already stores a vote.
C23_BlankTextRefused ==
  /\ Len(hist) >= 2
  /\ hist[1].op = "vote"
  /\ poll.totalVotes > 0
  /\ Last.op = "addOption"
  /\ Last.snap.allowAddOptions
  /\ Last.arg[2] = <<" ">>

\* The display name holds no selection and no identity mapped to it is in
\* votedUsers.
NotVoted(p, name) ==
  /\ getMyPollSelectedIds(p, name) = <<>>
  /\ \A uid \in Range(p.votedUsers) : Get(p.voterDisplayNames, uid) # name

\* Some sequence of at most clicks votes by uid under name, each computed
\* from the result of the one before, ends in NotVoted.
RECURSIVE CanWithdraw(_, _, _, _)
CanWithdraw(p, uid, name, clicks) ==
  \/ NotVoted(p, name)
  \/ /\ clicks > 0
     /\ \E i \in 1..Len(p.options) :
          CanWithdraw(UpdateDoc(p, handleVote(p, uid, name, p.options[i].id)),
                      uid, name, clicks - 1)

\* C24: in single-choice and multi-choice polls, from every reachable state
\* in which a display name holds a non-empty selection, votes by the identity
\* that holds it, under that name, can bring the name back to NotVoted.
C24_CanReturnToNotVoted ==
  \A name \in Names : \A uid \in VotersNamed(poll, name) :
    SelectionOf(poll, uid) # {} => CanWithdraw(poll, uid, name, MaxClicks)

\* The identities in votedUsers whose selection contains the option.
SelectorsOf(p, id) ==
  {uid \in Range(p.votedUsers) : id \in SelectionOf(p, uid)}

\* The last call is a multi-choice vote by an identity that the snapshot
\* records, with votes, under another display name.
RenamedVote ==
  /\ hist # <<>>
  /\ Last.op = "vote"
  /\ Last.snap.allowMultiple
  /\ Get(Last.snap.voterDisplayNames, Last.uid) \notin {Undefined, Last.name}
  /\ SelectionOf(Last.snap, Last.uid) # {}

\* C25: in a multi-choice poll, when an identity with votes recorded under
\* one display name votes under another, its earlier votes are carried over
\* and counted once: its selection is the earlier one with the clicked option
\* toggled, it is mapped to no name but the new one, and every option's count
\* is the number of recorded voters whose selection contains the option.
C25_RenamedVotesCarried ==
  RenamedVote =>
    /\ SelectionOf(Last.after, Last.uid) =
         (SelectionOf(Last.snap, Last.uid) \ {Last.arg})
           \cup ({Last.arg} \ SelectionOf(Last.snap, Last.uid))
    /\ Get(Last.after.voterDisplayNames, Last.uid) \in {Last.name, Undefined}
    /\ Get(Last.after.voterDisplayNames, Last.uid) = Undefined
         <=> SelectionOf(Last.after, Last.uid) = {}
    /\ \A i \in 1..Len(Last.after.options) :
         Last.after.options[i].votes =
           Cardinality(SelectorsOf(Last.after, Last.after.options[i].id))

\* An identity with a vote under one name has voted another option under a
\* second name that another identity held; it now has both options selected
\* under the second name.
C25_CarriedToTakenName ==
  /\ RenamedVote
  /\ VotersNamed(Last.snap, Last.name) # {}
  /\ Cardinality(SelectionOf(poll, Last.uid)) = 2
  /\ Get(poll.voterDisplayNames, Last.uid) = Last.name

\* The identities, other than the voter, that the snapshot of the last call
\* records under a display name other than the voter's.
Bystanders ==
  {a \in Range(Last.snap.votedUsers) \ {Last.uid} :
     Get(Last.snap.voterDisplayNames, a) \notin {Undefined, Last.name}}

\* The voter of the last call is recorded with what its click selects, or not
\* at all when the click has withdrawn its last vote.
VoterRecorded ==
  LET mine == SelectionOf(Last.after, Last.uid)
  IN /\ mine \subseteq SelectionOf(Last.snap, Last.uid) \cup {Last.arg}
     /\ mine # {} =>
          /\ Count(Last.after.votedUsers, Last.uid) = 1
          /\ Get(Last.after.voterDisplayNames, Last.uid) = Last.name
     /\ mine = {} => Count(Last.after.votedUsers, Last.uid) = 0

\* The poll as it would be had identity a never voted: a's entries are gone
\* and each option a selected counts one vote less.
WithoutVoter(p, a) ==
  [p EXCEPT
     !.options = [i \in 1..Len(p.options) |->
                    [p.options[i] EXCEPT
                       !.votes = @ - Selects(SelectionOf(p, a), p.options[i].id)]],
     !.totalVotes = @ - Cardinality(SelectionOf(p, a)),
     !.votedUsers = Without(@, a),
     !.votedUserOptions = Delete(@, a),
     !.voterDisplayNames = Delete(@, a)]

\* C26: a vote by identity B under display name m, applied to the latest
\* stored poll in which another identity A is recorded under another name,
\* leaves A's selection, A's membership in votedUsers and A's display-name
\* entry unchanged, keeps A's one vote in the count of each option A selected
\* (the counts are those the same vote gives on the poll without A, plus A's
\* votes), and records B's vote alongside.
C26_BystandersKept ==
  (/\ hist # <<>>
   /\ Last.op = "vote"
   /\ Last.snap = Last.before
   /\ Bystanders # {}) =>
    /\ \A a \in Bystanders :
         /\ SameVoter(a, Last.snap, Last.after)
         /\ VotesOf(WithoutVoter(Last.after, a)) =
              VotesOf(UpdateDoc(WithoutVoter(Last.snap, a),
                                handleVote(WithoutVoter(Last.snap, a),
                                           Last.uid, Last.name, Last.arg)))
    /\ VoterRecorded

\* Calls i and j of the history are the same click computed from equal
\* snapshots: the same handler, identity, display name and response or option.
SameClick(i, j) ==
  /\ hist[i].op \in {"rsvp", "vote"}
  /\ hist[j].op = hist[i].op
  /\ hist[j].uid = hist[i].uid
  /\ hist[j].name = hist[i].name
  /\ hist[j].arg = hist[i].arg
  /\ hist[j].snap = hist[i].snap

\* What the handler of call i computes from its inputs and hands to updateDoc.
WrittenBy(i) ==
  IF hist[i].op = "rsvp"
  THEN handleScheduleVote(hist[i].snap, hist[i].uid, hist[i].name, hist[i].arg)
  ELSE handleVote(hist[i].snap, hist[i].uid, hist[i].name, hist[i].arg)

FieldsOf(op) ==
  CASE op \in {"rsvp", "vote"} -> VoteFields(op)
    [] op = "updateSchedule" ->
         {"title", "date", "time", "location", "desc", "updatedAt"}
    [] op = "updatePollDesc" -> {"desc"}

\* The fields ks of document d.
Restrict(d, ks) == [k \in ks |-> d[k]]

\* The call was not refused: an event edit needs a title and a date.
Accepted(call) ==
  call.op = "updateSchedule" => call.arg.title # "" /\ call.arg.date # ""

\* The values the handler of the call computes for its fields.
ValuesOf(call) ==
  CASE call.op = "rsvp" ->
         handleScheduleVote(call.snap, call.uid, call.name, call.arg)
    [] call.op = "vote" ->
         handleVote(call.snap, call.uid, call.name, call.arg)
    [] call.op = "updateSchedule" ->
         [k \in {"title", "date", "time", "location", "desc"} |-> call.arg[k]]
    [] call.op = "updatePollDesc" ->
         [desc |-> IF call.arg = <<" ", "d">> THEN <<"d">> ELSE <<>>]

\* Calls i and i + 1 are an edit and a vote on the same document, by two
\* clients, computed from the same snapshot and written one after the other.
EditRace(i) ==
  /\ i + 1 <= Len(hist)
  /\ hist[i].uid # hist[i + 1].uid
  /\ hist[i].snap = hist[i + 1].snap
  /\ \/ {hist[i].op, hist[i + 1].op} = {"rsvp", "updateSchedule"}
     \/ {hist[i].op, hist[i + 1].op} = {"vote", "updatePollDesc"}
  /\ Accepted(hist[i])
  /\ Accepted(hist[i + 1])

\* C28: an RSVP vote writes only attendees, notAttendees, undecided and
\* attendeeDisplayNames, an event edit only title, date, time, location, desc
\* and updatedAt, a poll vote only its five vote fields and a description
\* edit only desc; when an edit and a vote by two clients are computed from
\* the same snapshot, the stored document holds both changes whichever is
\* written first.
C28_EditAndVoteBothKept ==
  /\ \A i \in 1..Len(hist) :
       LET ks == DOMAIN hist[i].before \ FieldsOf(hist[i].op)
       IN Restrict(hist[i].after, ks) = Restrict(hist[i].before, ks)
  /\ \A i \in 1..Len(hist) :
       EditRace(i) =>
         \A j \in {i, i + 1} :
           \A k \in DOMAIN ValuesOf(hist[j]) :
             hist[i + 1].after[k] = ValuesOf(hist[j])[k]

\* An RSVP vote has been stored, and an edit of the event computed from the
\* snapshot without the vote has been written after it: the stored event has
\* the new title and the vote.
C28_EditAfterVote ==
  /\ Len(hist) >= 2
  /\ EditRace(Len(hist) - 1)
  /\ Last.op = "updateSchedule"
  /\ ListOf(Last.snap, "attend") = <<>>
  /\ ListOf(schedule, "attend") # <<>>
  /\ schedule.title = "t2"

\* Every identity has acted under one display name in all its calls, and
\* every vote names an option of the poll.
FixedNames ==
  /\ \A i, j \in 1..Len(hist) :
       hist[i].uid = hist[j].uid => hist[i].name = hist[j].name
  /\ \A i \in 1..Len(hist) :
       hist[i].op = "vote" /\ hist[i].arg \in Range(IdsOf(hist[i].snap))

\* C29: when every identity always acts under one display name (several
\* identities may share one) and every vote names an existing option, then
\* after any sequence of votes computed from the latest stored poll, in
\* single-choice and in multi-choice mode, each option's votes is the number
\* of identities in votedUsers whose votedUserOptions entry contains it.
C29_CountsAreSelectors ==
  FixedNames =>
    \A i \in 1..Len(poll.options) :
      poll.options[i].votes =
        Cardinality({uid \in Range(poll.votedUsers) :
                       poll.options[i].id \in
                         Range(Get(poll.votedUserOptions, uid))})

\* Two identities that share a display name and a third under another name
\* have voted: the vote of one of the two has been rolled back by the other's,
\* and an option has two votes.
C29_SharedNameRolledBack ==
  /\ FixedNames
  /\ \E i, j \in 1..Len(hist) :
       /\ i < j
       /\ hist[i].uid # hist[j].uid
       /\ hist[i].name = hist[j].name
       /\ hist[i].uid \notin Range(poll.votedUsers)
       /\ hist[j].uid \in Range(poll.votedUsers)
  /\ \E i \in 1..Len(poll.options) : poll.options[i].votes = 2

\* The identities in the three lists that the event records under the name.
ListedUnder(sched, name) ==
  {uid \in UNION {Range(ListOf(sched, r)) : r \in Responses} :
     Get(sched.attendeeDisplayNames, uid) = name}

\* C30: when every identity always acts under one display name, then under
\* any interleaving of RSVP votes by several clients with stale snapshots
\* every stored state of the event has pairwise disjoint lists, no identity
\* twice in a list and at most one listed identity per display name.
C30_StaleVotesKeepLists ==
  (/\ CallsOnly(RsvpOps)
   /\ \A i \in 1..Len(hist) : hist[i].name = userDisplayName[hist[i].uid]) =>
    /\ \A r1, r2 \in Responses :
         r1 # r2 =>
           Range(ListOf(schedule, r1)) \cap Range(ListOf(schedule, r2)) = {}
    /\ \A r \in Responses :
         Cardinality(Range(ListOf(schedule, r))) = Len(ListOf(schedule, r))
    /\ \A name \in Names : Cardinality(ListedUnder(schedule, name)) <= 1

\* Two clients with different display names have voted from the same
\* snapshot, and a third vote was computed from a snapshot older than the
\* stored event: the stored event lists one identity, a vote is lost.
C30_VoteLostInRace ==
  /\ Len(hist) = 3
  /\ CallsOnly(RsvpOps)
  /\ hist[1].uid # hist[2].uid
  /\ hist[1].name # hist[2].name
  /\ hist[1].snap = hist[2].snap
  /\ hist[3].snap # hist[3].before
  /\ Cardinality(UNION {Range(ListOf(schedule, r)) : r \in Responses}) = 1

====
